---- MODULE Spec2Model ----
(***************************************************************************)
(* Model of src/platform/windows/menu.rs: the recursive construction of a  *)
(* native popup menu from a Menu<T> tree (try_from / add_all /             *)
(* set_menu_icon), the display and lookup operations of NativeMenu, and    *)
(* its Drop.  Every native call is one step whose result the environment   *)
(* chooses; the build keeps the call stack of add_all explicitly.          *)
(***************************************************************************)
EXTENDS Integers, Sequences, FiniteSets, TLC

\* ------------------------------------------------------------------ bounds
MaxNodes == 2       \* nodes of an input tree, for the whole life of a handle
MaxBuildNodes == 3  \* nodes of an input tree, for the construction alone
MaxLookupId == 3    \* ids handed to NativeMenu::map are 0..MaxLookupId

\* --------------------------------------------------------- native constants
MF_STRING == 0
MF_GRAYED == 1
MF_CHECKED == 8
MF_POPUP == 16
MF_SEPARATOR == 2048

VARIABLES
    tree,       \* value.items: the input Menu<T>, a sequence of MenuItem
    phase,      \* "start" | "building" | "failed" | "live" | "dropping" | "destroyed"
    stack,      \* the activation records of add_all, innermost last
    signals,    \* Vec<T> built by add_all, then NativeMenu.signals_map
    bitmaps,    \* Vec<HBITMAP> built by add_all, then NativeMenu.bitmaps
    hmenu,      \* NativeMenu.hmenu (0 while no NativeMenu exists)
    calls,      \* the native calls issued by try_from/add_all, with results
    op          \* the current or last operation on the NativeMenu

vars == <<tree, phase, stack, signals, bitmaps, hmenu, calls, op>>

\* ------------------------------------------------------------ input trees
\* T is opaque to the builder: two distinct values tell any two positions apart
Signals == {1, 2}
CheckedValues == {"None", "SomeTrue", "SomeFalse"}

Separator ==
    [kind |-> "Separator", signal |-> 0, disabled |-> FALSE, checked |-> "None",
     icon |-> FALSE, children |-> <<>>]

Button(s, d, c, i) ==
    [kind |-> "Button", signal |-> s, disabled |-> d, checked |-> c,
     icon |-> i, children |-> <<>>]

SubMenu(ch, i) ==
    [kind |-> "Menu", signal |-> 0, disabled |-> FALSE, checked |-> "None",
     icon |-> i, children |-> ch]

PlainButtons == {Button(s, FALSE, "None", i) : s \in Signals, i \in BOOLEAN}

AllButtons ==
    {Button(s, d, c, i) : s \in Signals, d \in BOOLEAN, c \in CheckedValues, i \in BOOLEAN}

RECURSIVE ItemsOfSize(_), ForestsOfSize(_)
\* the MenuItem values that consist of exactly n nodes
ItemsOfSize(n) ==
    IF n = 1
    THEN {Separator} \cup PlainButtons \cup {SubMenu(<<>>, i) : i \in BOOLEAN}
    ELSE {SubMenu(f, i) : f \in ForestsOfSize(n - 1), i \in BOOLEAN}

\* the item sequences that consist of exactly n nodes in total
ForestsOfSize(n) ==
    IF n = 0
    THEN {<<>>}
    ELSE UNION {{<<it>> \o f : it \in ItemsOfSize(k), f \in ForestsOfSize(n - k)} : k \in 1..n}

\* the tree of the specification's scenario: [Button 1, Separator, Menu [Button 2]]
ScenarioTree ==
    <<Button(1, FALSE, "None", FALSE), Separator,
      SubMenu(<<Button(2, FALSE, "None", FALSE)>>, FALSE)>>

Trees(max) ==
    UNION {ForestsOfSize(n) : n \in 0..max}
    \cup {<<b>> : b \in AllButtons}
    \cup {ScenarioTree}

RECURSIVE ItemsAt(_, _)
\* the children of the Menu node at path p (the root items for the empty path)
ItemsAt(items, p) ==
    IF p = <<>> THEN items ELSE ItemsAt(items[Head(p)].children, Tail(p))

\* the node at the non-empty path p
NodeAt(items, p) == ItemsAt(items, SubSeq(p, 1, Len(p) - 1))[p[Len(p)]]

\* --------------------------------------------------------------- helpers
Top == stack[Len(stack)]
Pop == SubSeq(stack, 1, Len(stack) - 1)
SetTop(f) == [stack EXCEPT ![Len(stack)] = f]

\* a recursive add_all that is handed the menu of the level above
FrameOnParent(h, p) ==
    [hmenu |-> IF stack = <<>> THEN h ELSE Top.hmenu, path |-> p, i |-> 1,
     pc |-> "item", sub |-> 0, item_id |-> 0, by_position |-> FALSE, bitmap |-> 0]

\* add_all(hmenu, signals, items, bitmaps) entered for the level at path p
Frame(h, p) ==
    [hmenu |-> h, path |-> p, i |-> 1, pc |-> "item", sub |-> 0,
     item_id |-> 0, by_position |-> FALSE, bitmap |-> 0]

CurItems == ItemsAt(tree, Top.path)
CurPath == Top.path \o <<Top.i>>
CurItem == CurItems[Top.i]

\* one native call: hmenu, flags, id and by_position are its arguments, ret the
\* handle or count it returned (for SetMenuItemInfoW the hbmpItem it was given),
\* path the node of the input tree the call was issued for
Call(name, h, flags, id, byPos, ret, ok, p) ==
    [op |-> name, hmenu |-> h, flags |-> flags, id |-> id, by_position |-> byPos,
     ret |-> ret, ok |-> ok, path |-> p]

OkCalls(name) == {k \in DOMAIN calls : calls[k].op = name /\ calls[k].ok}

\* handles are numbered in the order the environment hands them out
FreshMenu == 1 + Cardinality(OkCalls("CreatePopupMenu"))
FreshBitmap == 1 + Cardinality(OkCalls("to_bitmap"))

\* GetMenuItemCount: the number of entries appended to menu h so far
ItemCount(h) == Cardinality({k \in OkCalls("AppendMenuW") : calls[k].hmenu = h})

NoOp == [name |-> "none", arg |-> 0, calls |-> <<>>, result |-> "none", value |-> 0]

\* an error that ends only the level it occurred in: the caller goes on as if
\* the recursive add_all had returned Ok
AbortLevelOnly ==
    /\ phase' = IF Len(stack) <= 1 THEN "failed" ELSE phase
    /\ stack' = IF Len(stack) <= 1 THEN <<>> ELSE Pop

\* the `?` after a failed native call inside try_from/add_all
Abort ==
    /\ phase' = "failed"
    /\ stack' = <<>>

\* ------------------------------------------------------------------- Init
InitWith(trees) ==
    /\ tree \in trees
    /\ phase = "start"
    /\ stack = <<>>
    /\ signals = <<>>
    /\ bitmaps = <<>>
    /\ hmenu = 0
    /\ calls = <<>>
    /\ op = NoOp

Init == InitWith(Trees(MaxNodes))

\* the construction alone, on larger trees
BuildInit == InitWith(Trees(MaxBuildNodes))

\* ------------------------------------------------------------ try_from
\* try_from: CreatePopupMenu for the root, the two empty Vecs, enter add_all
TryFrom ==
    /\ phase = "start"
    /\ \E ok \in BOOLEAN :
        /\ calls' = Append(calls, Call("CreatePopupMenu", 0, 0, 0, FALSE,
                                       IF ok THEN FreshMenu ELSE 0, ok, <<>>))
        /\ IF ok
           THEN /\ phase' = "building"
                /\ stack' = <<Frame(FreshMenu, <<>>)>>
           ELSE Abort
    /\ UNCHANGED <<tree, signals, bitmaps, hmenu, op>>

\* ------------------------------------------------------------- add_all
\* flags of a Button's AppendMenuW: MF_STRING, |= MF_CHECKED, |= MF_GRAYED
\* a checked mark for every button that has a checked value
ButtonFlagsCheckedWhenSome(disabled, checked) ==
    MF_STRING + (IF checked # "None" THEN MF_CHECKED ELSE 0)
              + (IF disabled THEN MF_GRAYED ELSE 0)

ButtonFlags(disabled, checked) ==
    MF_STRING + (IF checked = "SomeTrue" THEN MF_CHECKED ELSE 0)
              + (IF disabled THEN MF_GRAYED ELSE 0)

\* ids counted from one
MenuIdFromOne(sigs) == Len(sigs) + 1

\* let menu_id = signals.len()
MenuId(sigs) == Len(sigs)

\* a push that puts the new signal in front of the older ones
PushSignalFront(sigs, s) == <<s>> \o sigs

\* signals.push(signal)
PushSignal(sigs, s) == Append(sigs, s)

\* a walk in which a submenu takes a slot of the signal collection too
PushesSignalUnlessSeparator(kind) == kind # "Separator"

\* signals.push is part of the MenuItem::Button arm only
PushesSignal(kind) == kind = "Button"

\* a popup entry tagged like a button, with the next signal index
SubmenuIdLikeButton(sub) == Len(signals)

\* let submenu_id = submenu as usize
SubmenuId(sub) == sub

\* a position that is one too small
SubmenuPositionMinusTwo(count) == count - 2

\* GetMenuItemCount(hmenu) - 1
SubmenuPosition(count) == count - 1

\* a Button arm that only logs the icon error, as the Menu arm does
IconErrorNeverFatal(kind) == FALSE

\* a Menu arm that propagates the icon error with `?`, as the Button arm does
IconErrorAlwaysFatal(kind) == TRUE

\* set_menu_icon's Err: `?` in the Button branch, `if let Err` + log in the Menu branch
IconErrorIsFatal(kind) == kind = "Button"

\* a set_menu_icon that records the bitmap before SetMenuItemInfoW is checked
BitmapsAlwaysPushed(bms, b, ok) == Append(bms, b)

\* set_menu_icon: bitmaps.push(bitmap) is reached only past the `?` of SetMenuItemInfoW
BitmapsAfterAttach(bms, b, ok) == IF ok THEN Append(bms, b) ELSE bms

\* the loop moves on to the next item of the current level
Advance == stack' = SetTop([Top EXCEPT !.i = @ + 1, !.pc = "item", !.sub = 0,
                                       !.item_id = 0, !.by_position = FALSE,
                                       !.bitmap = 0])

\* the rest of the item's branch once set_menu_icon is over (or was not called)
AfterIcon ==
    /\ Advance
    /\ signals' = IF PushesSignal(CurItem.kind)
                  THEN PushSignal(signals, CurItem.signal)
                  ELSE signals
    /\ phase' = phase

\* a Button arm that pushed the signal before the icon step: the entry is
\* there when the icon error aborts the build
IconFailedAfterPush ==
    IF IconErrorIsFatal(CurItem.kind)
    THEN Abort /\ signals' = (IF PushesSignal(CurItem.kind)
                              THEN PushSignal(signals, CurItem.signal)
                              ELSE signals)
    ELSE AfterIcon

\* what the caller of set_menu_icon does with Err
IconFailed ==
    IF IconErrorIsFatal(CurItem.kind)
    THEN Abort /\ signals' = signals
    ELSE AfterIcon

InLoop ==
    /\ phase = "building"
    /\ Top.pc = "item"
    /\ Top.i <= Len(CurItems)

\* `for item in items` is exhausted: Ok(()); at the root try_from builds Self
AddAllReturn ==
    /\ phase = "building"
    /\ Top.pc = "item"
    /\ Top.i > Len(CurItems)
    /\ IF Len(stack) = 1
       THEN /\ phase' = "live"
            /\ hmenu' = Top.hmenu
       ELSE /\ phase' = phase
            /\ hmenu' = hmenu
    /\ stack' = Pop
    /\ UNCHANGED <<tree, signals, bitmaps, calls, op>>

\* MenuItem::Separator
AppendSeparator ==
    /\ InLoop
    /\ CurItem.kind = "Separator"
    /\ \E ok \in BOOLEAN :
        /\ calls' = Append(calls, Call("AppendMenuW", Top.hmenu, MF_SEPARATOR, 0,
                                       FALSE, 0, ok, CurPath))
        /\ IF ok THEN Advance /\ phase' = phase ELSE Abort
    /\ UNCHANGED <<tree, signals, bitmaps, hmenu, op>>

\* MenuItem::Button, up to the AppendMenuW
AppendButton ==
    /\ InLoop
    /\ CurItem.kind = "Button"
    /\ \E ok \in BOOLEAN :
        /\ calls' = Append(calls, Call("AppendMenuW", Top.hmenu,
                                       ButtonFlags(CurItem.disabled, CurItem.checked),
                                       MenuId(signals), FALSE, 0, ok, CurPath))
        /\ IF ~ok
           THEN Abort /\ signals' = signals
           ELSE IF CurItem.icon
                THEN /\ stack' = SetTop([Top EXCEPT !.pc = "icon_resolve",
                                                    !.item_id = MenuId(signals),
                                                    !.by_position = FALSE])
                     /\ phase' = phase
                     /\ signals' = signals
                ELSE AfterIcon
    /\ UNCHANGED <<tree, bitmaps, hmenu, op>>

\* MenuItem::Menu: CreatePopupMenu, then the recursive add_all
CreateSubmenu ==
    /\ InLoop
    /\ CurItem.kind = "Menu"
    /\ \E ok \in BOOLEAN :
        /\ calls' = Append(calls, Call("CreatePopupMenu", 0, 0, 0, FALSE,
                                       IF ok THEN FreshMenu ELSE 0, ok, CurPath))
        /\ IF ok
           THEN /\ stack' = Append(SetTop([Top EXCEPT !.pc = "append_popup",
                                                      !.sub = FreshMenu]),
                                   Frame(FreshMenu, CurPath))
                /\ phase' = phase
           ELSE Abort
    /\ UNCHANGED <<tree, signals, bitmaps, hmenu, op>>

\* MenuItem::Menu: the recursive add_all returned Ok, AppendMenuW(MF_POPUP)
AppendPopup ==
    /\ phase = "building"
    /\ Top.pc = "append_popup"
    /\ \E ok \in BOOLEAN :
        /\ calls' = Append(calls, Call("AppendMenuW", Top.hmenu, MF_POPUP, SubmenuId(Top.sub),
                                       FALSE, 0, ok, CurPath))
        /\ IF ~ok
           THEN Abort /\ signals' = signals
           ELSE IF CurItem.icon
                THEN /\ stack' = SetTop([Top EXCEPT !.pc = "item_count"])
                     /\ phase' = phase
                     /\ signals' = signals
                ELSE AfterIcon
    /\ UNCHANGED <<tree, bitmaps, hmenu, op>>

\* MenuItem::Menu with an icon: GetMenuItemCount(hmenu) - 1, -1 being its failure
GetItemCount ==
    /\ phase = "building"
    /\ Top.pc = "item_count"
    /\ \E ok \in BOOLEAN :
        LET ret == IF ok THEN ItemCount(Top.hmenu) ELSE -1
            pos == SubmenuPosition(ret)
        IN  /\ calls' = Append(calls, Call("GetMenuItemCount", Top.hmenu, 0, 0,
                                           FALSE, ret, ok, CurPath))
            /\ IF pos >= 0
               THEN /\ stack' = SetTop([Top EXCEPT !.pc = "icon_resolve",
                                                   !.item_id = pos,
                                                   !.by_position = TRUE])
                    /\ phase' = phase
                    /\ signals' = signals
               ELSE AfterIcon
    /\ UNCHANGED <<tree, bitmaps, hmenu, op>>

\* set_menu_icon: icon.to_bitmap()?
ToBitmap ==
    /\ phase = "building"
    /\ Top.pc = "icon_resolve"
    /\ \E ok \in BOOLEAN :
        /\ calls' = Append(calls, Call("to_bitmap", 0, 0, 0, FALSE,
                                       IF ok THEN FreshBitmap ELSE 0, ok, CurPath))
        /\ IF ok
           THEN /\ stack' = SetTop([Top EXCEPT !.pc = "icon_attach",
                                               !.bitmap = FreshBitmap])
                /\ phase' = phase
                /\ signals' = signals
           ELSE IconFailed
    /\ UNCHANGED <<tree, bitmaps, hmenu, op>>

\* set_menu_icon: SetMenuItemInfoW(..)?; bitmaps.push(bitmap); Ok(())
SetMenuItemInfo ==
    /\ phase = "building"
    /\ Top.pc = "icon_attach"
    /\ \E ok \in BOOLEAN :
        /\ calls' = Append(calls, Call("SetMenuItemInfoW", Top.hmenu, 0, Top.item_id,
                                       Top.by_position, Top.bitmap, ok, CurPath))
        /\ bitmaps' = BitmapsAfterAttach(bitmaps, Top.bitmap, ok)
        /\ IF ok THEN AfterIcon ELSE IconFailed
    /\ UNCHANGED <<tree, hmenu, op>>

\* ------------------------------------------------------ NativeMenu methods
\* a handle that a failed show_on_cursor leaves unusable
IdleUnlessFailed == phase = "live" /\ op.result \notin {"pending", "Err"}

\* &self: a method can start when none is running; Drop needs the same
Idle == phase = "live" /\ op.result # "pending"

OpCall(name, h, ok) == [op |-> name, h |-> h, ok |-> ok]

\* a show_on_cursor that drops the results of its native calls
ShowIgnoresError(ok) == FALSE

\* error_check(..)? inside show_on_cursor: a failed call returns Err at once
ShowPropagates(ok) == ~ok

\* the state of show_on_cursor after the native call `name` returned `ok`
ShowAfter(prev, name, h, ok, last) ==
    [name |-> "show", arg |-> 0, calls |-> Append(prev, OpCall(name, h, ok)),
     result |-> IF ShowPropagates(ok) THEN "Err" ELSE IF last THEN "Ok" ELSE "pending",
     value |-> 0]

ShowAt(n) == phase = "live" /\ op.name = "show" /\ op.result = "pending" /\ Len(op.calls) = n

\* show_on_cursor: GetCursorPos(&mut cursor)
ShowGetCursorPos ==
    /\ Idle
    /\ \E ok \in BOOLEAN : op' = ShowAfter(<<>>, "GetCursorPos", 0, ok, FALSE)
    /\ UNCHANGED <<tree, phase, stack, signals, bitmaps, hmenu, calls>>

\* show_on_cursor: SetForegroundWindow(hwnd)
ShowSetForegroundWindow ==
    /\ ShowAt(1)
    /\ \E ok \in BOOLEAN : op' = ShowAfter(op.calls, "SetForegroundWindow", 0, ok, FALSE)
    /\ UNCHANGED <<tree, phase, stack, signals, bitmaps, hmenu, calls>>

\* show_on_cursor: TrackPopupMenu(self.hmenu, ..), then Ok(())
ShowTrackPopupMenu ==
    /\ ShowAt(2)
    /\ \E ok \in BOOLEAN : op' = ShowAfter(op.calls, "TrackPopupMenu", hmenu, ok, TRUE)
    /\ UNCHANGED <<tree, phase, stack, signals, bitmaps, hmenu, calls>>

\* a lookup that is off by one
SignalMapGetOneBased(sigs, id) == IF id \in DOMAIN sigs THEN <<sigs[id]>> ELSE <<>>

\* SignalMap for Vec<T>: self.get(id as usize); <<>> is None, <<s>> is Some(s)
SignalMapGet(sigs, id) == IF id + 1 \in DOMAIN sigs THEN <<sigs[id + 1]>> ELSE <<>>

\* NativeMenu::map(id)
Map ==
    /\ Idle
    /\ \E id \in 0..MaxLookupId :
        LET r == SignalMapGet(signals, id)
        IN  op' = [name |-> "map", arg |-> id, calls |-> <<>>,
                   result |-> IF r = <<>> THEN "None" ELSE "Some",
                   value |-> IF r = <<>> THEN 0 ELSE r[1]]
    /\ UNCHANGED <<tree, phase, stack, signals, bitmaps, hmenu, calls>>

\* -------------------------------------------------------------------- Drop
\* a Drop that gives up at the first failed DeleteObject
DropStopsOnError(ok) == ok

\* Drop: `if let Err(err) = .. { log::warn!(..) }`: the loop goes on either way
DropContinues(ok) == TRUE

DropCalls == IF op.name = "drop" THEN op.calls ELSE <<>>

\* a loop over the bitmaps from the last to the first
DropBitmapAtReversed(bms, n) == bms[Len(bms) - n]

\* for bitmap in &self.bitmaps: the bitmap taken after n iterations
DropBitmapAt(bms, n) == bms[n + 1]

\* Drop: DeleteObject for the next bitmap of self.bitmaps
DropDeleteObject ==
    /\ Idle \/ phase = "dropping"
    /\ Len(DropCalls) < Len(bitmaps)
    /\ \E ok \in BOOLEAN :
        /\ op' = [name |-> "drop", arg |-> 0,
                  calls |-> Append(DropCalls,
                                   OpCall("DeleteObject",
                                           DropBitmapAt(bitmaps, Len(DropCalls)), ok)),
                  result |-> IF DropContinues(ok) THEN "pending" ELSE "done",
                  value |-> 0]
        /\ phase' = IF DropContinues(ok) THEN "dropping" ELSE "destroyed"
    /\ UNCHANGED <<tree, stack, signals, bitmaps, hmenu, calls>>

\* Drop: DestroyMenu(self.hmenu), after the loop over self.bitmaps
DropDestroyMenu ==
    /\ Idle \/ phase = "dropping"
    /\ Len(DropCalls) = Len(bitmaps)
    /\ \E ok \in BOOLEAN :
        op' = [name |-> "drop", arg |-> 0,
               calls |-> Append(DropCalls, OpCall("DestroyMenu", hmenu, ok)),
               result |-> "done", value |-> 0]
    /\ phase' = "destroyed"
    /\ UNCHANGED <<tree, stack, signals, bitmaps, hmenu, calls>>

Next ==
    \/ TryFrom
    \/ AddAllReturn
    \/ AppendSeparator
    \/ AppendButton
    \/ CreateSubmenu
    \/ AppendPopup
    \/ GetItemCount
    \/ ToBitmap
    \/ SetMenuItemInfo
    \/ ShowGetCursorPos
    \/ ShowSetForegroundWindow
    \/ ShowTrackPopupMenu
    \/ Map
    \/ DropDeleteObject
    \/ DropDestroyMenu

Spec == Init /\ [][Next]_vars

\* try_from and what it calls, without the later use of the handle
BuildNext ==
    \/ TryFrom
    \/ AddAllReturn
    \/ AppendSeparator
    \/ AppendButton
    \/ CreateSubmenu
    \/ AppendPopup
    \/ GetItemCount
    \/ ToBitmap
    \/ SetMenuItemInfo

BuildSpec == BuildInit /\ [][BuildNext]_vars

\* ===================================================================== claims
Built == phase \in {"live", "dropping", "destroyed"}

RECURSIVE Flatten(_)
\* the signals of the Button leaves of items, depth first, left to right
Flatten(items) ==
    IF items = <<>>
    THEN <<>>
    ELSE LET h == Head(items)
         IN  (CASE h.kind = "Button" -> <<h.signal>>
                [] h.kind = "Menu" -> Flatten(h.children)
                [] OTHER -> <<>>) \o Flatten(Tail(items))

RECURSIVE Paths(_, _)
\* the paths of all nodes of items, each prefixed by pre
Paths(items, pre) ==
    UNION {{pre \o <<k>>} \cup Paths(items[k].children, pre \o <<k>>) : k \in DOMAIN items}

NodePaths == Paths(tree, <<>>)
PathsOfKind(kind) == {p \in NodePaths : NodeAt(tree, p).kind = kind}

FailedCalls == {k \in DOMAIN calls : ~calls[k].ok}
IconCalls == {k \in DOMAIN calls : calls[k].op \in {"to_bitmap", "SetMenuItemInfoW"}}
CallsFor(kind) == {k \in DOMAIN calls : calls[k].path # <<>> /\ NodeAt(tree, calls[k].path).kind = kind}

\* C1: once the build has returned a handle, the signal collection read in index
\* order is the sequence of the signals of the tree's Button leaves in depth-first,
\* left-to-right order.
C1_SignalsAreFlattenedTree == Built => signals = Flatten(tree)

\* a handle for a tree with a button before a submenu that holds another button of
\* a different signal
C1_Witness ==
    /\ phase = "live"
    /\ Len(tree) >= 2
    /\ tree[1].kind = "Button"
    /\ \E k \in DOMAIN tree :
         /\ tree[k].kind = "Menu"
         /\ tree[k].children # <<>>
         /\ tree[k].children[1].kind = "Button"
         /\ tree[k].children[1].signal # tree[1].signal
    /\ Len(signals) = 2

\* C2: once the build has returned a handle, the signal collection has exactly one
\* entry per Button node of the tree, Separator and Menu nodes adding none; and a
\* build in which no native call failed does not fail, so that the tree
\* [Menu [Separator]] yields a handle with no signals.
C2_SignalCountIsButtonCount ==
    /\ Built => Len(signals) = Cardinality(PathsOfKind("Button"))
    /\ phase = "failed" => FailedCalls # {}
    /\ (phase = "live" /\ tree = <<SubMenu(<<Separator>>, FALSE)>>) => signals = <<>>

\* the handle built from [Menu [Separator]]
C2_Witness ==
    /\ phase = "live"
    /\ tree = <<SubMenu(<<Separator>>, FALSE)>>
    /\ signals = <<>>
    /\ FailedCalls = {}

\* the Button nodes whose AppendMenuW was issued with the given id and succeeded
ButtonsAppendedWithId(id) ==
    {calls[k].path : k \in {j \in OkCalls("AppendMenuW") \cap CallsFor("Button") : calls[j].id = id}}

\* C3: map(id) on a built handle is Some exactly for 0 <= id < signal count, and
\* then its value is the signal of the one button whose entry was appended with
\* that id; for every other id it is None.
C3_LookupById ==
    op.name = "map" =>
        /\ op.result = "Some" <=> (0 <= op.arg /\ op.arg < Len(signals))
        /\ op.result \in {"Some", "None"}
        /\ op.result = "Some" =>
             /\ Cardinality(ButtonsAppendedWithId(op.arg)) = 1
             /\ \A p \in ButtonsAppendedWithId(op.arg) : op.value = NodeAt(tree, p).signal
        /\ op.result = "None" => ButtonsAppendedWithId(op.arg) = {}

\* a lookup of id 1 that found a signal different from the one at id 0
C3_Witness ==
    /\ op.name = "map"
    /\ op.arg = 1
    /\ op.result = "Some"
    /\ op.value # signals[1]

\* ------------------------------------------------------- native resources
CreatedMenus == {calls[k].ret : k \in OkCalls("CreatePopupMenu")}
ResolvedBitmaps == {calls[k].ret : k \in OkCalls("to_bitmap")}
AttachedBitmaps == {calls[k].ret : k \in OkCalls("SetMenuItemInfoW")}
RecordedBitmaps == {bitmaps[i] : i \in DOMAIN bitmaps}

\* child was appended to parent as a popup entry
IsPopupOf(parent, child) ==
    \E k \in OkCalls("AppendMenuW") :
        calls[k].flags = MF_POPUP /\ calls[k].hmenu = parent /\ calls[k].id = child

RECURSIVE WithSubmenus(_)
\* the menus of S and, transitively, the submenus appended to them
WithSubmenus(S) ==
    LET T == S \cup {m \in CreatedMenus : \E q \in S : IsPopupOf(q, m)}
    IN  IF T = S THEN S ELSE WithSubmenus(T)

DestroyMenuCalled == {DropCalls[i].h : i \in {j \in DOMAIN DropCalls : DropCalls[j].op = "DestroyMenu"}}
DeleteObjectCalls(b) == {j \in DOMAIN DropCalls : DropCalls[j].op = "DeleteObject" /\ DropCalls[j].h = b}
DeleteObjectCalled == {b \in ResolvedBitmaps : DeleteObjectCalls(b) # {}}

\* C4: at the end of every run (the build aborted, or the handle was torn down)
\* every popup menu that was created is covered by a DestroyMenu call, directly or
\* through the menu it was appended to, and every bitmap the resolver returned
\* had DeleteObject called on it.
C4_EveryResourceReleased ==
    phase \in {"failed", "destroyed"} =>
        /\ CreatedMenus \subseteq WithSubmenus(DestroyMenuCalled)
        /\ ResolvedBitmaps \subseteq DeleteObjectCalled

ButtonIconFailures == FailedCalls \cap IconCalls \cap CallsFor("Button")
SubmenuIconFailures == FailedCalls \cap IconCalls \cap CallsFor("Menu")

\* C5: a failed to_bitmap or SetMenuItemInfoW for a Button's icon, at any depth
\* of the tree, is the last call of the build, which ends in an error with no
\* NativeMenu.
C5_ButtonIconFailureAborts ==
    \A k \in ButtonIconFailures :
        /\ phase = "failed"
        /\ hmenu = 0
        /\ k = Len(calls)

\* an aborted build whose last call is the failed attach of the icon of a button
\* inside a submenu
C5_Witness ==
    /\ phase = "failed"
    /\ \E k \in ButtonIconFailures :
         /\ calls[k].op = "SetMenuItemInfoW"
         /\ Len(calls[k].path) >= 2

\* C6: a build in which the only failed native calls are the to_bitmap or
\* SetMenuItemInfoW of submenu icons never aborts; it appends an entry for every
\* node of the tree and returns a handle whose signals are those of the tree's
\* buttons in order, as without the icon.
C6_SubmenuIconFailureTolerated ==
    (FailedCalls \subseteq SubmenuIconFailures) =>
        /\ phase # "failed"
        /\ Built =>
             /\ signals = Flatten(tree)
             /\ {calls[k].path : k \in OkCalls("AppendMenuW")} = NodePaths
             /\ RecordedBitmaps = AttachedBitmaps

\* a handle built although a submenu's icon failed, with the button that follows
\* the submenu in the collection
C6_Witness ==
    /\ phase = "live"
    /\ FailedCalls \subseteq SubmenuIconFailures
    /\ \E k \in SubmenuIconFailures :
         LET p == calls[k].path
             next == [p EXCEPT ![Len(p)] = @ + 1]
         IN  /\ next \in PathsOfKind("Button")
             /\ signals # <<>>
             /\ signals[Len(signals)] = NodeAt(tree, next).signal

\* C7: whatever the results of the destruction calls, a finished teardown has
\* issued DeleteObject for every bitmap of the collection, in order, and then
\* DestroyMenu for the top-level handle; a teardown under way can always take
\* its next step.
C7_TeardownTotal ==
    /\ phase = "destroyed" =>
         /\ op.name = "drop"
         /\ op.result = "done"
         /\ Len(op.calls) = Len(bitmaps) + 1
         /\ \A i \in DOMAIN bitmaps :
              op.calls[i].op = "DeleteObject" /\ op.calls[i].h = bitmaps[i]
         /\ op.calls[Len(op.calls)].op = "DestroyMenu"
         /\ op.calls[Len(op.calls)].h = hmenu
    /\ phase = "dropping" => ENABLED (DropDeleteObject \/ DropDestroyMenu)

\* a finished teardown of two bitmaps all of whose destruction calls failed
C7_Witness ==
    /\ phase = "destroyed"
    /\ Len(bitmaps) = 2
    /\ Len(op.calls) = 3
    /\ \A i \in DOMAIN op.calls : ~op.calls[i].ok

\* C8: every bitmap of the collection, during the build and afterwards, is the
\* bitmap of a SetMenuItemInfoW call that succeeded; the collection holds no
\* handle twice; DeleteObject is called only on handles of the collection, never
\* before the teardown, at most once per handle, and exactly once per handle when
\* the teardown is over.
C8_BitmapsAttachedAndDestroyedOnce ==
    /\ RecordedBitmaps \subseteq AttachedBitmaps
    /\ Cardinality(RecordedBitmaps) = Len(bitmaps)
    /\ \A j \in DOMAIN DropCalls :
         DropCalls[j].op = "DeleteObject" => DropCalls[j].h \in RecordedBitmaps
    /\ \A b \in RecordedBitmaps :
         /\ Cardinality(DeleteObjectCalls(b)) <= 1
         /\ phase = "destroyed" => Cardinality(DeleteObjectCalls(b)) = 1
         /\ phase \notin {"dropping", "destroyed"} => DeleteObjectCalls(b) = {}

\* a torn-down handle with one recorded bitmap, built in a run where another
\* bitmap failed to attach and was not recorded
C8_Witness ==
    /\ phase = "destroyed"
    /\ Len(bitmaps) = 1
    /\ \E k \in FailedCalls : calls[k].op = "SetMenuItemInfoW"
    /\ \A b \in RecordedBitmaps : Cardinality(DeleteObjectCalls(b)) = 1

\* C9: in a build that returned a handle, every bitmap a to_bitmap call returned
\* is in the handle's bitmap collection.
C9_ResolvedBitmapsOwned == Built => ResolvedBitmaps \subseteq RecordedBitmaps

ShowOrder == <<"GetCursorPos", "SetForegroundWindow", "TrackPopupMenu">>

\* C10: the native calls of show_on_cursor are a prefix of GetCursorPos,
\* SetForegroundWindow, TrackPopupMenu; a failed call is the last one issued and
\* makes the result Err; the result is Ok only after all three succeeded.
C10_ShowStopsAtFirstFailure ==
    op.name = "show" =>
        /\ Len(op.calls) \in 1..3
        /\ \A i \in DOMAIN op.calls : op.calls[i].op = ShowOrder[i]
        /\ \A i \in DOMAIN op.calls : ~op.calls[i].ok => i = Len(op.calls)
        /\ op.result = "Err" <=> ~op.calls[Len(op.calls)].ok
        /\ op.result = "Ok" <=> (Len(op.calls) = 3 /\ op.calls[3].ok)
        /\ \A i \in DOMAIN op.calls :
             op.calls[i].op = "TrackPopupMenu" => op.calls[i].h = hmenu

\* a show_on_cursor that ended in Err at SetForegroundWindow, without TrackPopupMenu
C10_Witness ==
    /\ op.name = "show"
    /\ op.result = "Err"
    /\ Len(op.calls) = 2
    /\ op.calls[1].ok
    /\ ~op.calls[2].ok

\* C11: between construction and teardown the handle does not change: every step
\* of show_on_cursor, whatever its result, and every map leaves the menu handle,
\* the signal collection and the bitmap collection as they were and the handle
\* live; after a show_on_cursor that failed, a new show_on_cursor and a map of any
\* id can start, and the map answers from the unchanged collection.
C11_HandleImmutableWhileLive ==
    /\ [][(phase = "live" /\ op'.name \in {"show", "map"}) =>
            /\ phase' = "live"
            /\ hmenu' = hmenu
            /\ signals' = signals
            /\ bitmaps' = bitmaps
            /\ op'.name = "map" =>
                 op'.result = (IF op'.arg < Len(signals) THEN "Some" ELSE "None")]_vars
    /\ []((phase = "live" /\ op.name = "show" /\ op.result = "Err") =>
            (ENABLED ShowGetCursorPos /\ ENABLED Map))

\* a live handle with a signal and a bitmap whose last show_on_cursor failed
C11_Witness ==
    /\ phase = "live"
    /\ op.name = "show"
    /\ op.result = "Err"
    /\ signals # <<>>
    /\ bitmaps # <<>>

\* the failed calls that the builder propagates with `?`
FatalFailures ==
    {k \in FailedCalls : calls[k].op \in {"CreatePopupMenu", "AppendMenuW"}}
    \cup ButtonIconFailures

\* p is a proper prefix of q: q is a node below the node p
IsAbove(p, q) == Len(p) < Len(q) /\ SubSeq(q, 1, Len(p)) = p

\* C12: a failed CreatePopupMenu, AppendMenuW or Button icon call is the last
\* native call of the build: the build has then failed without a handle, the
\* builder can take no further step (so no later sibling is processed), and no
\* AppendMenuW was issued for a submenu above the node whose call failed; a
\* failed root CreatePopupMenu is the only call made.  Nothing else ends a build
\* in failure.
C12_FatalFailureAbortsBuild ==
    /\ \A k \in FatalFailures :
         /\ k = Len(calls)
         /\ phase = "failed"
         /\ hmenu = 0
         /\ stack = <<>>
         /\ \A j \in DOMAIN calls :
              ~(calls[j].op = "AppendMenuW" /\ IsAbove(calls[j].path, calls[k].path))
    /\ phase = "failed" => (Len(calls) \in FatalFailures /\ ~ENABLED BuildNext)
    /\ (calls # <<>> /\ ~calls[1].ok) => Len(calls) = 1

\* an aborted build whose failed call was issued inside the first item, a
\* submenu, while a sibling after that submenu was still to come
C12_Witness ==
    /\ phase = "failed"
    /\ Len(tree) >= 2
    /\ tree[1].kind = "Menu"
    /\ Len(calls[Len(calls)].path) = 2
    /\ calls[Len(calls)].path[1] = 1

\* the AppendMenuW calls issued for Button nodes, and those of them that succeeded
ButtonAppends == {k \in CallsFor("Button") : calls[k].op = "AppendMenuW"}
OkButtonAppends == {k \in ButtonAppends : calls[k].ok}

\* C13: the id of a Button's AppendMenuW is the length of the signal collection
\* at the moment of the call; over the whole tree the ids of the appended
\* buttons are 0, 1, 2, .. in the order of the calls (hence pairwise distinct),
\* at most the last one still without its signal, none without in a built
\* handle; and the signal at index i is that of the button appended with id i.
C13_ButtonIdsSequential ==
    /\ [][(Len(calls') = Len(calls) + 1 /\ Len(calls') \in ButtonAppends')
            => calls'[Len(calls')].id = Len(signals)]_vars
    /\ [](/\ \A k \in ButtonAppends :
                calls[k].id = Cardinality({j \in OkButtonAppends : j < k})
          /\ Cardinality(OkButtonAppends) \in {Len(signals), Len(signals) + 1}
          /\ Built => Cardinality(OkButtonAppends) = Len(signals)
          /\ \A k \in OkButtonAppends :
                calls[k].id < Len(signals) =>
                    signals[calls[k].id + 1] = NodeAt(tree, calls[k].path).signal)

\* a handle whose button with id 0 is at the root and whose button with id 1 is
\* inside a submenu
C13_Witness ==
    /\ phase = "live"
    /\ \E j, k \in OkButtonAppends :
         /\ calls[j].id = 0
         /\ Len(calls[j].path) = 1
         /\ calls[k].id = 1
         /\ Len(calls[k].path) = 2

\* the Button nodes whose AppendMenuW and, with an icon, SetMenuItemInfoW succeeded
CompletedButtons ==
    {p \in PathsOfKind("Button") :
        /\ \E k \in OkCalls("AppendMenuW") : calls[k].path = p
        /\ NodeAt(tree, p).icon => \E k \in OkCalls("SetMenuItemInfoW") : calls[k].path = p}

\* C14: in every state of the build, the state of an abort included, the signal
\* collection has one entry per button whose AppendMenuW and, if it has an icon,
\* to_bitmap and SetMenuItemInfoW have all succeeded, so a button with a failed
\* call has none; the collection grows only by one entry at a time, appended at
\* the end, in the step of the last of these calls of that button.
C14_SignalPushedAfterAppendAndIcon ==
    /\ [](Len(signals) = Cardinality(CompletedButtons))
    /\ [][signals' # signals =>
            LET c == calls'[Len(calls')]
            IN  /\ Len(calls') = Len(calls) + 1
                /\ c.ok
                /\ c.path \in PathsOfKind("Button")
                /\ c.op = (IF NodeAt(tree, c.path).icon
                           THEN "SetMenuItemInfoW" ELSE "AppendMenuW")
                /\ signals' = Append(signals, NodeAt(tree, c.path).signal)]_vars

\* a build aborted by the failed icon attach of its second button: two buttons
\* appended, one signal
C14_Witness ==
    /\ phase = "failed"
    /\ Len(signals) = 1
    /\ Cardinality(OkButtonAppends) = 2
    /\ calls[Len(calls)].op = "SetMenuItemInfoW"
    /\ Len(calls) \in ButtonIconFailures

\* the popup menu created for the level at path p (the root for the empty path)
LevelMenu(p) == calls[CHOOSE k \in OkCalls("CreatePopupMenu") : calls[k].path = p].ret

\* the AppendMenuW calls that added an entry to menu h, and the n-th of them
EntryCalls(h) == {k \in OkCalls("AppendMenuW") : calls[k].hmenu = h}
Entry(h, n) == calls[CHOOSE k \in EntryCalls(h) : Cardinality({j \in EntryCalls(h) : j <= k}) = n]

HasFlag(flags, bit) == (flags \div bit) % 2 = 1

\* the entry e is the native entry of the tree node at path p
EntryMatches(e, p) ==
    LET node == NodeAt(tree, p)
    IN  /\ e.path = p
        /\ HasFlag(e.flags, MF_SEPARATOR) <=> node.kind = "Separator"
        /\ HasFlag(e.flags, MF_POPUP) <=> node.kind = "Menu"
        /\ node.kind = "Menu" => e.id = LevelMenu(p)

Levels == {<<>>} \cup PathsOfKind("Menu")

\* C15: in a build that returned a handle, the entries appended to the popup
\* menu of each level (the root and every submenu) are as many as the level's
\* children and the n-th entry is that of the n-th child: a separator entry for
\* a Separator, a string entry for a Button, a popup entry holding the child's
\* own menu for a Menu.
C15_EntriesMirrorChildren ==
    Built =>
        \A p \in Levels :
            LET items == ItemsAt(tree, p)
                h == LevelMenu(p)
            IN  /\ Cardinality(EntryCalls(h)) = Len(items)
                /\ \A n \in DOMAIN items : EntryMatches(Entry(h, n), p \o <<n>>)

\* a handle whose root level has a separator, a button and a submenu with a child
C15_Witness ==
    /\ phase = "live"
    /\ \E a, b, c \in DOMAIN tree :
         /\ tree[a].kind = "Separator"
         /\ tree[b].kind = "Button"
         /\ tree[c].kind = "Menu"
         /\ tree[c].children # <<>>

AttachCalls == {k \in DOMAIN calls : calls[k].op = "SetMenuItemInfoW"}

\* the call that appended the entry of the node the call k was issued for
AppendOf(k) ==
    CHOOSE j \in OkCalls("AppendMenuW") : calls[j].path = calls[k].path

\* the menus that had been appended, directly or through others, to h before call k
RECURSIVE SubmenusBefore(_, _)
SubmenusBefore(S, k) ==
    LET T == S \cup {calls[j].id : j \in {i \in OkCalls("AppendMenuW") :
                                            /\ i < k
                                            /\ calls[i].flags = MF_POPUP
                                            /\ calls[i].hmenu \in S}}
    IN  IF T = S THEN S ELSE SubmenusBefore(T, k)

\* the entries the attach call k can address: by position the entry at that
\* index of its menu; by identifier every entry that is no popup and carries
\* that id, in its menu or in a submenu of it
AddressedBy(k) ==
    LET c == calls[k]
    IN  IF c.by_position
        THEN {j \in EntryCalls(c.hmenu) :
                j < k /\ Cardinality({i \in EntryCalls(c.hmenu) : i < j}) = c.id}
        ELSE {j \in OkCalls("AppendMenuW") :
                /\ j < k
                /\ calls[j].hmenu \in SubmenusBefore({c.hmenu}, k)
                /\ calls[j].flags # MF_POPUP
                /\ calls[j].id = c.id}

\* the arguments of the attach call k follow the addressing mode of its node
AddressingModeOf(k) ==
    LET c == calls[k]
        a == calls[AppendOf(k)]
    IN  /\ c.hmenu = a.hmenu
        /\ IF NodeAt(tree, c.path).kind = "Button"
           THEN ~c.by_position /\ c.id = a.id
           ELSE /\ c.by_position
                /\ c.id = Cardinality({i \in EntryCalls(c.hmenu) : i < k}) - 1

\* every attach call is issued with the addressing mode of its node
AddressingModesKept == \A k \in AttachCalls : AddressingModeOf(k)

\* C16: a Button's icon is attached by identifier, with the button's own id, on
\* the menu the button was appended to; a Menu's icon by position on the parent
\* level, at the item count after the append minus one; and in every build the
\* entry the call addresses is the one just appended, and no other.
C16_IconAddressesAppendedEntry ==
    \A k \in AttachCalls :
        /\ AddressingModeOf(k)
        /\ calls[k].ok => AddressedBy(k) = {AppendOf(k)}

PopupAppends == {k \in DOMAIN calls : calls[k].op = "AppendMenuW" /\ calls[k].flags = MF_POPUP}

\* the call that created the popup menu of the level at path p
CreateOf(p) == CHOOSE k \in OkCalls("CreatePopupMenu") : calls[k].path = p

\* C17: the popup entry of a Menu node holds the menu that was created for that
\* node and for no other; no other popup entry holds it; every call for a node
\* below it, and every call on its menu, lies between its CreatePopupMenu and
\* the AppendMenuW that appends it to the parent; its children are appended to
\* its own menu.  In a build that returned a handle one menu was created for the
\* root and one per Menu node, all different, and all of them are the top-level
\* menu or are reached from it through popup entries.
C17_SubmenuBuiltThenAppendedOnce ==
    /\ \A k \in PopupAppends :
         LET p == calls[k].path
         IN  /\ calls[k].id = LevelMenu(p)
             /\ \A j \in PopupAppends : calls[j].id = calls[k].id => j = k
             /\ \A j \in OkCalls("CreatePopupMenu") : calls[j].ret = calls[k].id => j = CreateOf(p)
             /\ \A j \in DOMAIN calls :
                  (IsAbove(p, calls[j].path) \/ calls[j].hmenu = calls[k].id) =>
                      (CreateOf(p) < j /\ j < k)
             /\ \A j \in DOMAIN calls :
                  (calls[j].op = "AppendMenuW" /\ IsAbove(p, calls[j].path)
                     /\ Len(calls[j].path) = Len(p) + 1) => calls[j].hmenu = calls[k].id
    /\ Built =>
         /\ Cardinality(OkCalls("CreatePopupMenu")) = 1 + Cardinality(PathsOfKind("Menu"))
         /\ Cardinality(CreatedMenus) = 1 + Cardinality(PathsOfKind("Menu"))
         /\ \A p \in PathsOfKind("Menu") :
              Cardinality({k \in PopupAppends : calls[k].ok /\ calls[k].path = p}) = 1
         /\ WithSubmenus({hmenu}) = CreatedMenus

\* a handle for a tree with a submenu inside a submenu that has a child: three
\* menus, the innermost reached from the root through two popup entries
C17_Witness ==
    /\ phase = "live"
    /\ Cardinality(CreatedMenus) = 3
    /\ \E p \in PathsOfKind("Menu") : Len(p) = 2 /\ NodeAt(tree, p).children # <<>>
    /\ WithSubmenus({hmenu}) = CreatedMenus

DestroyMenuCalls == {j \in DOMAIN DropCalls : DropCalls[j].op = "DestroyMenu"}

\* C18: teardown goes one way, from a live handle with no method running to
\* destroyed, and nothing happens to a destroyed handle: no show_on_cursor, no
\* map, no second teardown.  Its calls are DeleteObject for the bitmaps in
\* collection order, then DestroyMenu on the top-level menu as the last call:
\* never a DeleteObject after DestroyMenu, DestroyMenu exactly once in a
\* finished teardown and not before.
C18_TeardownOrderedOneWay ==
    /\ [][/\ phase \in {"dropping", "destroyed"} =>
               (phase' \in {"dropping", "destroyed"} /\ op'.name = "drop")
          /\ phase = "destroyed" => phase' = "destroyed" /\ op' = op
          /\ (phase' \in {"dropping", "destroyed"} /\ phase' # phase) =>
               (Idle \/ phase = "dropping")]_vars
    /\ [](/\ phase = "destroyed" => ~ENABLED Next
          /\ \A j \in DOMAIN DropCalls :
               IF j <= Len(bitmaps)
               THEN DropCalls[j].op = "DeleteObject" /\ DropCalls[j].h = bitmaps[j]
               ELSE /\ DropCalls[j].op = "DestroyMenu"
                    /\ DropCalls[j].h = hmenu
                    /\ j = Len(DropCalls)
          /\ Cardinality(DestroyMenuCalls) = (IF phase = "destroyed" THEN 1 ELSE 0))

\* a finished teardown of a handle with two bitmaps: two DeleteObject calls on
\* different handles, then DestroyMenu
C18_Witness ==
    /\ phase = "destroyed"
    /\ Len(op.calls) = 3
    /\ op.calls[1].op = "DeleteObject"
    /\ op.calls[2].op = "DeleteObject"
    /\ op.calls[1].h # op.calls[2].h
    /\ op.calls[3].op = "DestroyMenu"
    /\ op.calls[1].ok

\* the to_bitmap calls issued for the node at path p
ResolveCalls(p) == {k \in DOMAIN calls : calls[k].op = "to_bitmap" /\ calls[k].path = p}

IconPaths == {p \in NodePaths : NodeAt(tree, p).icon}

\* the Menu nodes whose GetMenuItemCount returned a count
CountedSubmenus ==
    {calls[k].path : k \in {j \in OkCalls("GetMenuItemCount") : calls[j].ret >= 1}}

\* C19: to_bitmap is called at most once for a node with an icon and never for
\* a node without one, in every build; in a build that returned a handle it was
\* called exactly once for every Button and every Menu that has an icon.
C19_ResolverOncePerIcon ==
    /\ \A p \in NodePaths :
         Cardinality(ResolveCalls(p)) <= (IF p \in IconPaths THEN 1 ELSE 0)
    /\ Built => \A p \in IconPaths : Cardinality(ResolveCalls(p)) = 1

\* C19, amended: to_bitmap is called at most once for a node with an icon and
\* never for a node without one, in every build; in a build that returned a
\* handle it was called exactly once for every Button that has an icon and for
\* every Menu that has an icon and whose GetMenuItemCount returned a count, and
\* not at all for a Menu whose GetMenuItemCount failed.
C19_ResolverOncePerLocatedIcon ==
    /\ \A p \in NodePaths :
         Cardinality(ResolveCalls(p)) <= (IF p \in IconPaths THEN 1 ELSE 0)
    /\ Built =>
         \A p \in IconPaths :
            Cardinality(ResolveCalls(p)) =
                (IF NodeAt(tree, p).kind = "Button" \/ p \in CountedSubmenus THEN 1 ELSE 0)

\* a handle for a tree with a button whose icon was resolved once and a submenu
\* whose icon was skipped after GetMenuItemCount failed
C19_Witness ==
    /\ phase = "live"
    /\ \E p \in IconPaths \cap PathsOfKind("Button") : Cardinality(ResolveCalls(p)) = 1
    /\ \E p \in IconPaths \cap PathsOfKind("Menu") :
         /\ p \notin CountedSubmenus
         /\ ResolveCalls(p) = {}

\* C20: the flags of every Button's AppendMenuW are a function of disabled and
\* checked alone: MF_GRAYED is set iff disabled, MF_CHECKED is set iff checked
\* is Some(true) (None and Some(false) both leave it clear), whatever the other
\* of the two is, and no other flag is set.
C20_ButtonFlagsFromDisabledAndChecked ==
    \A k \in ButtonAppends :
        LET node == NodeAt(tree, calls[k].path)
        IN  /\ HasFlag(calls[k].flags, MF_GRAYED) <=> node.disabled
            /\ HasFlag(calls[k].flags, MF_CHECKED) <=> node.checked = "SomeTrue"
            /\ calls[k].flags \in {MF_STRING, MF_GRAYED, MF_CHECKED, MF_GRAYED + MF_CHECKED}
            /\ \A j \in ButtonAppends :
                 LET other == NodeAt(tree, calls[j].path)
                 IN  (other.disabled = node.disabled
                        /\ (other.checked = "SomeTrue") = (node.checked = "SomeTrue"))
                     => calls[j].flags = calls[k].flags

\* a built menu whose disabled Some(false) button was appended greyed and
\* without the checked mark
C20_Witness ==
    /\ Built
    /\ \E k \in OkButtonAppends :
         /\ NodeAt(tree, calls[k].path).disabled
         /\ NodeAt(tree, calls[k].path).checked = "SomeFalse"
         /\ calls[k].flags = MF_GRAYED
         /\ ~HasFlag(calls[k].flags, MF_CHECKED)
====
